---- MODULE Spec2Model ----
(***************************************************************************)
(* A model of main/optimizer.py (BaseOptimizer: the score cache            *)
(* mol_buffer, score_mol, sort_buffer, log_intermediate, log_result,       *)
(* save_result, optimize, production, hparam_tune) and of                  *)
(* main/dog_gen/run.py (DoG_Gen_Optimizer._optimize).                      *)
(*                                                                         *)
(* mol_buffer is a Python dict, which iterates in insertion order: it is   *)
(* a sequence of entries [smi, score, rank] with pairwise distinct smi.    *)
(* Scores are small integers standing for the oracle's floats.  The        *)
(* numbers 100 and 10000 of log_result are scaled down to TopN and         *)
(* MaxOracle, and the six budget levels to the two levels                  *)
(* <<TopN, MaxOracle>> (the first one equal to the table size, the last    *)
(* one equal to the cut-off, as in the source).                            *)
(***************************************************************************)
EXTENDS Integers, Sequences, FiniteSets, TLC

VARIABLES
    model_name,     \* self.model_name: "Default" (another subclass) or "dog_gen"
    entry,          \* the entry point the caller uses: "production" or "hparam_tune"
    num_runs,       \* production's num_runs / hparam_tune's count
    pc,             \* position of the (single) thread of control
    seeds_left,     \* production: the seeds still to run
    seed,           \* production: the seed of the current optimize call
    trials_left,    \* hparam_tune: sweep trials the agent has still to start
    mol_buffer,     \* self.mol_buffer
    run_active,     \* a wandb run is open (wandb.init done, not yet finished)
    results_yaml,   \* the results file of the current seed
    last,           \* what the last step returned or logged (its locals)
    error,          \* the exception that ended the last call, or "none"
    steps,          \* history: the statements of optimize completed in this call
    oracle_calls,   \* history: oracle invocations since mol_buffer was last reset
    oracle_log,     \* history: [smi, score] of every oracle call that returned, since the last reset
    hc_calls        \* history: calls of hillclimber.run_hillclimbing in this _optimize

vars == <<model_name, entry, num_runs, pc, seeds_left, seed, trials_left, mol_buffer,
          run_active, results_yaml, last, error, steps, oracle_calls, oracle_log, hc_calls>>

----------------------------------------------------------------------------
(* Bounds *)

\* Rows of the "Top 100 Molecules" table, the slice of _analyze_results and the
\* first budget level: stands for 100.
TopN == 2

\* The cut-off of log_result and its last budget level: stands for 10000.
MaxOracle == 3

\* Largest num_runs (production) or count (hparam_tune) tried.
MaxRuns == 2

\* The molecules a caller may pass to score_mol.  "OCC" and "CCO" are two
\* writings of the same molecule.
Mols == {"C", "CC", "CN", "CCO", "OCC"}

\* The scores the oracle may return.
Scores == {1, 2}

LowScore == CHOOSE s \in Scores : \A t \in Scores : s <= t

\* The lengths of the batches passed to score_mol.
BatchLens == 1..2

----------------------------------------------------------------------------
(* Sequences and Python's list operations *)

Min(a, b) == IF a <= b THEN a ELSE b

\* s[:n] for n >= 0
Slice(s, n) == SubSeq(s, 1, Min(n, Len(s)))

Range(s) == {s[i] : i \in DOMAIN s}

\* Chem.MolToSmiles: the canonical SMILES of a molecule.
MolToSmiles(mol) == IF mol = "OCC" THEN "CCO" ELSE mol

SMILES == {MolToSmiles(m) : m \in Mols}

Keys(buf) == {buf[i].smi : i \in DOMAIN buf}

\* self.mol_buffer[smi] for a key that is present
Get(buf, smi) == buf[CHOOSE i \in DOMAIN buf : buf[i].smi = smi]

\* self.mol_buffer[smi] = [score, rank]: a new key goes to the end of the dict,
\* a present key keeps its place and takes the new value.
DictSet(buf, e) ==
    IF e.smi \in Keys(buf)
    THEN [i \in DOMAIN buf |-> IF buf[i].smi = e.smi THEN e ELSE buf[i]]
    ELSE Append(buf, e)

\* sorted(..., key=score, reverse=True) is stable: of two items with the same
\* score the one that came first stays first.
InsertByScore(s, e) ==
    LET k == Cardinality({i \in DOMAIN s : s[i].score >= e.score})
    IN  SubSeq(s, 1, k) \o <<e>> \o SubSeq(s, k + 1, Len(s))

RECURSIVE SortedByScore(_)
SortedByScore(s) ==
    IF s = <<>> THEN <<>>
    ELSE InsertByScore(SortedByScore(SubSeq(s, 1, Len(s) - 1)), s[Len(s)])

InsertByRank(s, e) ==
    LET k == Cardinality({i \in DOMAIN s : s[i].rank <= e.rank})
    IN  SubSeq(s, 1, k) \o <<e>> \o SubSeq(s, k + 1, Len(s))

RECURSIVE SortedByRankStable(_)
SortedByRankStable(s) ==
    IF s = <<>> THEN <<>>
    ELSE InsertByRank(SortedByRankStable(SubSeq(s, 1, Len(s) - 1)), s[Len(s)])

IsSortedDesc(scores) ==
    \A i, j \in DOMAIN scores : i < j => scores[i] >= scores[j]

ScoresOf(items) == [i \in DOMAIN items |-> items[i].score]

MaxOf(S) == CHOOSE x \in S : \A y \in S : y <= x

----------------------------------------------------------------------------
(* BaseOptimizer: the score cache *)

\* sort_buffer with the sort left out.
sort_buffer_unsorted(buf) == buf

sort_buffer(buf) == SortedByScore(buf)

\* The cache test that never hits.
CacheHit_never(buf, smi) == FALSE

\* try: _ = self.mol_buffer[smi]  succeeds
CacheHit(buf, smi) == smi \in Keys(buf)

\* The cached value read from the wrong place of the pair.
CachedScore_rank(buf, smi) == Get(buf, smi).rank

\* _[0] of the cached pair
CachedScore(buf, smi) == Get(buf, smi).score

\* The entry numbered from 0.
NewEntry_from_zero(buf, smi, score) == [smi |-> smi, score |-> score, rank |-> Len(buf)]

\* [score, len(self.mol_buffer)+1] under the key smi
NewEntry(buf, smi, score) == [smi |-> smi, score |-> score, rank |-> Len(buf) + 1]

\* What the oracle does when it is called: it returns a score or raises.
OracleOutcomes ==
    {[raises |-> FALSE, score |-> s] : s \in Scores} \cup {[raises |-> TRUE, score |-> 0]}

\* The loop of score_mol from position i on.  oracle_func[i] is what the oracle
\* does if it is called for mol_list[i].  st holds the buffer, the score_list
\* built so far, whether the oracle raised, and the record of the oracle's calls.
RECURSIVE score_mol_loop(_, _, _, _)
score_mol_loop(st, mol_list, oracle_func, i) ==
    IF i > Len(mol_list) \/ st.raised THEN st
    ELSE LET smi == MolToSmiles(mol_list[i]) IN
         IF CacheHit(st.buf, smi)
         THEN score_mol_loop(
                  [st EXCEPT !.score_list = Append(@, CachedScore(st.buf, smi))],
                  mol_list, oracle_func, i + 1)
         ELSE IF oracle_func[i].raises
         THEN [st EXCEPT !.raised = TRUE, !.calls = @ + 1]
         ELSE LET score == oracle_func[i].score IN
              score_mol_loop(
                  [st EXCEPT !.buf = DictSet(@, NewEntry(st.buf, smi, score)),
                             !.score_list = Append(@, score),
                             !.calls = @ + 1,
                             !.returned = Append(@, [smi |-> smi, score |-> score])],
                  mol_list, oracle_func, i + 1)

\* score_mol: the loop, then sort_buffer unless the oracle raised (the exception
\* leaves score_mol before the sort).
score_mol(buf, mol_list, oracle_func) ==
    LET st == score_mol_loop([buf |-> buf, score_list |-> <<>>, raised |-> FALSE,
                              calls |-> 0, returned |-> <<>>],
                             mol_list, oracle_func, 1)
    IN  IF st.raised THEN st ELSE [st EXCEPT !.buf = sort_buffer(st.buf)]

----------------------------------------------------------------------------
(* BaseOptimizer.log_result *)

\* log_num_oracles = [100, 500, 1000, 3000, 5000, 10000], scaled
log_num_oracles == <<TopN, MaxOracle>>

\* The ranking by insertion rank left out.
SortedByRank_unsorted(items) == items

\* sorted(self.mol_buffer.items(), key=rank)
SortedByRank(items) == SortedByRankStable(items)

\* if len(results) > 10000: results = results[:10000]
Truncate(results) == IF Len(results) > MaxOracle THEN Slice(results, MaxOracle) ELSE results

\* The level that takes every result.
LevelSlice_all(results, n_o) == results

\* results[:n_o]
LevelSlice(results, n_o) == Slice(results, n_o)

\* results_all_level
ResultsAllLevel(buf) ==
    LET results == Truncate(SortedByRank(buf))
    IN  [l \in DOMAIN log_num_oracles |->
            SortedByScore(LevelSlice(results, log_num_oracles[l]))]

\* The table that needs no full set of rows.
TableFails_never(levels) == FALSE

\* results_all_level[-1][i] for i in range(100) raises IndexError
TableFails(levels) == Len(levels[Len(levels)]) < TopN

\* The rows [i+1, score, #oracle, SMILES] of the "Top 100 Molecules" table
TopTable(levels) ==
    LET top == levels[Len(levels)]
    IN  [i \in 1..TopN |-> [Rank |-> i, Score |-> top[i].score,
                            Oracle |-> top[i].rank, SMILES |-> top[i].smi]]

\* _analyze_results on one level, with `passing` the SMILES the MolFilter lets
\* through: np.max of an empty list raises ValueError.
AnalyzeFails(level, passing) == {e \in Range(Slice(level, TopN)) : e.smi \in passing} = {}

_analyze_results(level, passing) ==
    LET results == Slice(level, TopN)
        ok == {e \in Range(results) : e.smi \in passing}
    IN  [top1 |-> MaxOf(Range(ScoresOf(results))),
         n_pass |-> Cardinality(ok),
         top1_pass |-> MaxOf({e.score : e \in ok})]

----------------------------------------------------------------------------
(* The callers *)

\* production's list of seeds
seeds == <<2, 3, 5, 7, 11, 13, 17, 19, 23, 29, 31, 37, 41, 43, 47, 53, 59, 61, 67,
           71, 73, 79, 83, 89, 97>>

\* The attributes BaseOptimizer.__init__ and DoG_Gen_Optimizer.__init__ set.
InitAttrs == {"model_name", "args", "n_jobs", "pool", "smi_file", "mol_buffer",
              "all_smiles", "sa_scorer", "diversity_evaluator", "filter"}

NoResults == [written |-> FALSE, seed |-> 0, data |-> <<>>]
Nothing == [op |-> "none"]

\* Where an exception that leaves _optimize or log_result ends up: production
\* and optimize catch nothing, so the program ends; wandb.agent logs the
\* exception of a trial and goes on.
AfterRaise == IF entry = "production" THEN "crashed" ELSE "agent"

\* The state after construction.  The constructor completes only when
\* args.smi_file is None (load_smiles_from_file reads the undefined name
\* smi_file); it sets mol_buffer = {} and no attribute oracle.
Init ==
    /\ model_name \in {"Default", "dog_gen"}
    /\ entry \in {"production", "hparam_tune"}
    /\ num_runs \in 0..MaxRuns
    /\ pc = "main"
    /\ seeds_left = <<>>
    /\ seed = 0
    /\ trials_left = 0
    /\ mol_buffer = <<>>
    /\ run_active = FALSE
    /\ results_yaml = NoResults
    /\ last = Nothing
    /\ error = "none"
    /\ steps = <<>>
    /\ oracle_calls = 0
    /\ oracle_log = <<>>
    /\ hc_calls = 0

\* production: seeds = seeds[:num_runs]
production ==
    /\ pc = "main" /\ entry = "production"
    /\ seeds_left' = Slice(seeds, num_runs)
    /\ pc' = "production_loop"
    /\ last' = Nothing
    /\ UNCHANGED <<model_name, entry, num_runs, seed, trials_left, mol_buffer, run_active,
                   results_yaml, error, steps, oracle_calls, oracle_log, hc_calls>>

\* production: for seed in seeds: self.optimize(oracle, config, seed)
production_next ==
    /\ pc = "production_loop" /\ seeds_left # <<>>
    /\ seed' = Head(seeds_left)
    /\ seeds_left' = Tail(seeds_left)
    /\ pc' = "optimize"
    /\ last' = Nothing
    /\ UNCHANGED <<model_name, entry, num_runs, trials_left, mol_buffer, run_active,
                   results_yaml, error, steps, oracle_calls, oracle_log, hc_calls>>

\* production: the loop is over
production_done ==
    /\ pc = "production_loop" /\ seeds_left = <<>>
    /\ pc' = "exit"
    /\ last' = Nothing
    /\ UNCHANGED <<model_name, entry, num_runs, seeds_left, seed, trials_left, mol_buffer,
                   run_active, results_yaml, error, steps, oracle_calls, oracle_log, hc_calls>>

\* optimize: wandb.init, np.random.seed, and the call of _optimize.  The wandb
\* run and the results file of this seed are new.
optimize_begin ==
    /\ pc = "optimize"
    /\ run_active' = TRUE
    /\ results_yaml' = NoResults
    /\ steps' = <<>>
    /\ hc_calls' = 0
    /\ pc' = "_optimize"
    /\ last' = Nothing
    /\ UNCHANGED <<model_name, entry, num_runs, seeds_left, seed, trials_left, mol_buffer,
                   error, oracle_calls, oracle_log>>

\* hparam_tune: wandb.sweep and wandb.agent(count=count)
hparam_tune ==
    /\ pc = "main" /\ entry = "hparam_tune"
    /\ trials_left' = num_runs
    /\ pc' = "agent"
    /\ last' = Nothing
    /\ UNCHANGED <<model_name, entry, num_runs, seeds_left, seed, mol_buffer, run_active,
                   results_yaml, error, steps, oracle_calls, oracle_log, hc_calls>>

\* wandb.agent starts the next trial: it calls _func
agent_next ==
    /\ pc = "agent" /\ trials_left > 0
    /\ trials_left' = trials_left - 1
    /\ pc' = "_func"
    /\ error' = "none"
    /\ last' = Nothing
    /\ UNCHANGED <<model_name, entry, num_runs, seeds_left, seed, mol_buffer, run_active,
                   results_yaml, steps, oracle_calls, oracle_log, hc_calls>>

\* wandb.agent has run count trials
agent_done ==
    /\ pc = "agent" /\ trials_left = 0
    /\ pc' = "exit"
    /\ last' = Nothing
    /\ UNCHANGED <<model_name, entry, num_runs, seeds_left, seed, trials_left, mol_buffer,
                   run_active, results_yaml, error, steps, oracle_calls, oracle_log, hc_calls>>

\* _func: with wandb.init(...) as run: self._optimize(oracle, config)
func_begin ==
    /\ pc = "_func"
    /\ run_active' = TRUE
    /\ steps' = <<>>
    /\ hc_calls' = 0
    /\ pc' = "_optimize"
    /\ last' = Nothing
    /\ UNCHANGED <<model_name, entry, num_runs, seeds_left, seed, trials_left, mol_buffer,
                   results_yaml, error, oracle_calls, oracle_log>>

----------------------------------------------------------------------------
(* Inside _optimize *)

\* The batches a caller may pass to score_mol
MolLists == UNION {[1..n -> Mols] : n \in BatchLens}

\* The oracle's behaviours for a call of score_mol, told apart only at the
\* positions whose key is not in the buffer when the call starts (for the
\* others the oracle is not consulted; there it is written as returning LowScore).
OracleFuncs(buf, mol_list) ==
    {f \in [DOMAIN mol_list -> OracleOutcomes] :
        \A i \in DOMAIN mol_list :
            MolToSmiles(mol_list[i]) \in Keys(buf) => f[i] = [raises |-> FALSE, score |-> LowScore]}

\* A subclass's _optimize calls self.score_mol(oracle_func, mol_list).  When the
\* oracle raises, the exception leaves score_mol and _optimize.
score_mol_call ==
    /\ pc = "_optimize" /\ model_name = "Default"
    /\ \E mol_list \in MolLists : \E oracle_func \in OracleFuncs(mol_buffer, mol_list) :
         LET r == score_mol(mol_buffer, mol_list, oracle_func) IN
         /\ mol_buffer' = r.buf
         /\ oracle_calls' = oracle_calls + r.calls
         /\ oracle_log' = oracle_log \o r.returned
         /\ last' = [op |-> "score_mol", mol_list |-> mol_list, raised |-> r.raised,
                     before |-> mol_buffer,
                     score_list |-> IF r.raised THEN <<>> ELSE r.score_list]
         /\ error' = IF r.raised THEN "OracleError" ELSE error
         /\ pc' = IF r.raised THEN AfterRaise ELSE "returned"
         /\ run_active' = IF r.raised /\ entry = "hparam_tune" THEN FALSE ELSE run_active
    /\ UNCHANGED <<model_name, entry, num_runs, seeds_left, seed, trials_left,
                   results_yaml, steps, hc_calls>>

\* An optional argument of log_intermediate: None, or a list.
NoneArg == [none |-> TRUE, list |-> <<>>]

ListArg(l) == [none |-> FALSE, list |-> l]

\* The values a caller may pass as mols and as scores.
MolsArgs == {NoneArg, ListArg(<<>>)} \cup {ListArg(<<m>>) : m \in {"C", "OCC"}}

ScoresArgs == {NoneArg, ListArg(<<>>)} \cup {ListArg(<<x>>) : x \in Scores}

\* The exception log_intermediate(mols, scores) raises on this buffer, or "none":
\* without arguments the scores are those of the first items of mol_buffer;
\* with mols = None and scores given, the loop over mols raises TypeError;
\* np.max(scores) raises TypeError on None and ValueError on an empty list.
LogIntermediateError(buf, mols, scores) ==
    IF mols.none /\ scores.none
    THEN IF Slice(buf, TopN) = <<>> THEN "ValueError" ELSE "none"
    ELSE IF mols.none \/ scores.none THEN "TypeError"
    ELSE IF scores.list = <<>> THEN "ValueError" ELSE "none"

\* A subclass's _optimize calls self.log_intermediate(), or
\* self.log_intermediate(mols, scores) with its own molecules.
log_intermediate ==
    /\ pc = "_optimize" /\ model_name = "Default"
    /\ \E mols \in MolsArgs : \E scores \in ScoresArgs :
         LET default == mols.none /\ scores.none
             temp_top100 == Slice(mol_buffer, TopN)
             exc == LogIntermediateError(mol_buffer, mols, scores)
             smis == IF default THEN [i \in DOMAIN temp_top100 |-> temp_top100[i].smi]
                     ELSE [i \in DOMAIN mols.list |-> MolToSmiles(mols.list[i])]
         IN  /\ last' = [op |-> "log_intermediate", given |-> ~default,
                         raised |-> exc # "none",
                         smis |-> IF exc = "TypeError" /\ mols.none THEN <<>> ELSE smis,
                         scores |-> IF default THEN ScoresOf(temp_top100) ELSE scores.list,
                         n_oracle |-> Len(mol_buffer)]
             /\ error' = IF exc # "none" THEN exc ELSE error
             /\ pc' = IF exc # "none" THEN AfterRaise ELSE "returned"
             /\ run_active' = IF exc # "none" /\ entry = "hparam_tune" THEN FALSE
                              ELSE run_active
    /\ UNCHANGED <<model_name, entry, num_runs, seeds_left, seed, trials_left, mol_buffer,
                   results_yaml, steps, oracle_calls, oracle_log, hc_calls>>

\* score_mol or log_intermediate has returned and _optimize goes on.
optimize_resume ==
    /\ pc = "returned"
    /\ pc' = "_optimize"
    /\ last' = Nothing
    /\ UNCHANGED <<model_name, entry, num_runs, seeds_left, seed, trials_left, mol_buffer,
                   run_active, results_yaml, error, steps, oracle_calls, oracle_log, hc_calls>>

\* A subclass's _optimize returns: optimize goes on to log_result; in _func the
\* with block ends, which finishes the wandb run.
optimize_return ==
    /\ pc = "_optimize" /\ model_name = "Default"
    /\ steps' = Append(steps, "_optimize")
    /\ pc' = IF entry = "production" THEN "log_result" ELSE "func_reset"
    /\ run_active' = IF entry = "production" THEN run_active ELSE FALSE
    /\ last' = Nothing
    /\ UNCHANGED <<model_name, entry, num_runs, seeds_left, seed, trials_left, mol_buffer,
                   results_yaml, error, oracle_calls, oracle_log, hc_calls>>

\* DoG_Gen_Optimizer._optimize: self.oracle.assign_evaluator(oracle) raises
\* AttributeError unless the object has an attribute oracle; otherwise the
\* model is loaded, hillclimber.run_hillclimbing is called once and _optimize
\* returns.
dog_gen_optimize ==
    /\ pc = "_optimize" /\ model_name = "dog_gen"
    /\ IF "oracle" \in InitAttrs
       THEN /\ hc_calls' = hc_calls + 1
            /\ steps' = Append(steps, "_optimize")
            /\ pc' = IF entry = "production" THEN "log_result" ELSE "func_reset"
            /\ run_active' = IF entry = "production" THEN run_active ELSE FALSE
            /\ error' = error
       ELSE /\ hc_calls' = hc_calls
            /\ steps' = steps
            /\ pc' = AfterRaise
            /\ run_active' = IF entry = "production" THEN run_active ELSE FALSE
            /\ error' = "AttributeError"
    /\ last' = Nothing
    /\ UNCHANGED <<model_name, entry, num_runs, seeds_left, seed, trials_left, mol_buffer,
                   results_yaml, oracle_calls, oracle_log>>

\* _func: self.mol_buffer = {} after the with block
func_reset ==
    /\ pc = "func_reset"
    /\ mol_buffer' = <<>>
    /\ oracle_calls' = 0
    /\ oracle_log' = <<>>
    /\ pc' = "agent"
    /\ last' = Nothing
    /\ UNCHANGED <<model_name, entry, num_runs, seeds_left, seed, trials_left, run_active,
                   results_yaml, error, steps, hc_calls>>

----------------------------------------------------------------------------
(* The rest of optimize *)

\* optimize: self.log_result().  `passing` is the set of SMILES the MolFilter
\* lets through.  The table is logged before the metrics are computed.
log_result ==
    /\ pc = "log_result"
    /\ \E passing \in SUBSET SMILES :
         LET levels == ResultsAllLevel(mol_buffer)
             no_rows == TableFails(levels)
             no_pass == ~no_rows /\ \E l \in DOMAIN levels : AnalyzeFails(levels[l], passing)
         IN  /\ last' = [op |-> "log_result", n |-> Len(mol_buffer),
                         results_all_level |-> levels,
                         table |-> IF no_rows THEN <<>> ELSE TopTable(levels),
                         metrics |-> IF no_rows \/ no_pass THEN <<>>
                                     ELSE [l \in DOMAIN levels |->
                                             _analyze_results(levels[l], passing)]]
             /\ error' = IF no_rows THEN "IndexError"
                         ELSE IF no_pass THEN "ValueError" ELSE error
             /\ pc' = IF no_rows \/ no_pass THEN AfterRaise ELSE "save_result"
             /\ steps' = IF no_rows \/ no_pass THEN steps ELSE Append(steps, "log_result")
    /\ UNCHANGED <<model_name, entry, num_runs, seeds_left, seed, trials_left, mol_buffer,
                   run_active, results_yaml, oracle_calls, oracle_log, hc_calls>>

\* optimize: self.save_result(suffix): sort_buffer, then yaml.dump of the dict
save_result ==
    /\ pc = "save_result"
    /\ mol_buffer' = sort_buffer(mol_buffer)
    /\ results_yaml' = [written |-> TRUE, seed |-> seed, data |-> mol_buffer']
    /\ steps' = Append(steps, "save_result")
    /\ pc' = "reset"
    /\ last' = Nothing
    /\ UNCHANGED <<model_name, entry, num_runs, seeds_left, seed, trials_left, run_active,
                   error, oracle_calls, oracle_log, hc_calls>>

\* optimize: self.mol_buffer = {}
optimize_reset ==
    /\ pc = "reset"
    /\ mol_buffer' = <<>>
    /\ oracle_calls' = 0
    /\ oracle_log' = <<>>
    /\ steps' = Append(steps, "reset")
    /\ pc' = "finish"
    /\ last' = Nothing
    /\ UNCHANGED <<model_name, entry, num_runs, seeds_left, seed, trials_left, run_active,
                   results_yaml, error, hc_calls>>

\* optimize: run.finish(), and optimize returns
run_finish ==
    /\ pc = "finish"
    /\ run_active' = FALSE
    /\ steps' = Append(steps, "finish")
    /\ pc' = "optimize_returned"
    /\ last' = Nothing
    /\ UNCHANGED <<model_name, entry, num_runs, seeds_left, seed, trials_left, mol_buffer,
                   results_yaml, error, oracle_calls, oracle_log, hc_calls>>

\* production: self.mol_buffer = {} after optimize
production_reset ==
    /\ pc = "optimize_returned"
    /\ mol_buffer' = <<>>
    /\ oracle_calls' = 0
    /\ oracle_log' = <<>>
    /\ pc' = "production_loop"
    /\ last' = Nothing
    /\ UNCHANGED <<model_name, entry, num_runs, seeds_left, seed, trials_left, run_active,
                   results_yaml, error, steps, hc_calls>>

Next ==
    \/ production
    \/ production_next
    \/ production_done
    \/ optimize_begin
    \/ hparam_tune
    \/ agent_next
    \/ agent_done
    \/ func_begin
    \/ score_mol_call
    \/ log_intermediate
    \/ optimize_resume
    \/ optimize_return
    \/ dog_gen_optimize
    \/ func_reset
    \/ log_result
    \/ save_result
    \/ optimize_reset
    \/ run_finish
    \/ production_reset

Spec == Init /\ [][Next]_vars

----------------------------------------------------------------------------
(* Properties *)

KeyOf(mol_list, i) == MolToSmiles(mol_list[i])

Pairs(items) == {[smi |-> items[i].smi, score |-> items[i].score] : i \in DOMAIN items}

Distinct(s) == \A i, j \in DOMAIN s : i # j => s[i] # s[j]

OptimizeOrder == <<"_optimize", "log_result", "save_result", "reset", "finish">>

\* C1, as stated: between two resets of mol_buffer the number of oracle calls
\* made so far equals len(mol_buffer).
C1_CallsEqualBufferSize == oracle_calls = Len(mol_buffer)

\* C1, amended: between two resets the oracle returns a score at most once per
\* canonical key, the keys it returned a score for are exactly the keys of
\* mol_buffer, and so the number of oracle calls that returned equals
\* len(mol_buffer); calls that raised are the only other calls.
C1_OracleReturnsOncePerKey ==
    /\ \A i, j \in DOMAIN oracle_log : i # j => oracle_log[i].smi # oracle_log[j].smi
    /\ {oracle_log[i].smi : i \in DOMAIN oracle_log} = Keys(mol_buffer)
    /\ Len(oracle_log) = Len(mol_buffer)
    /\ oracle_calls >= Len(mol_buffer)

\* A call of score_mol returned whose batch held the same new key twice (as two
\* writings of one molecule), after an oracle call that raised.
C1_Witness ==
    /\ last.op = "score_mol" /\ ~last.raised
    /\ Len(last.mol_list) = 2
    /\ last.mol_list[1] # last.mol_list[2]
    /\ KeyOf(last.mol_list, 1) = KeyOf(last.mol_list, 2)
    /\ KeyOf(last.mol_list, 1) \notin Keys(last.before)
    /\ oracle_calls > Len(mol_buffer)

\* C2: the ranks of the n entries of mol_buffer are pairwise distinct and are
\* exactly 1..n, the rank of a key is the position at which the oracle first
\* returned its score since the last reset, and no step changes the
\* (score, rank) pair of a key that stays in the buffer.
C2_RanksAreInsertionPositions ==
    /\ [](/\ {mol_buffer[i].rank : i \in DOMAIN mol_buffer} = 1..Len(mol_buffer)
          /\ Distinct([i \in DOMAIN mol_buffer |-> mol_buffer[i].rank])
          /\ Distinct([i \in DOMAIN mol_buffer |-> mol_buffer[i].smi])
          /\ \A i \in DOMAIN mol_buffer :
                /\ mol_buffer[i].rank \in DOMAIN oracle_log
                /\ oracle_log[mol_buffer[i].rank] =
                       [smi |-> mol_buffer[i].smi, score |-> mol_buffer[i].score])
    /\ [][\A i \in DOMAIN mol_buffer :
             mol_buffer[i].smi \in Keys(mol_buffer') =>
                 Get(mol_buffer', mol_buffer[i].smi) = mol_buffer[i]]_vars

\* A buffer of three or more entries that the sort has put in another order
\* than the order of insertion.
C2_Witness ==
    /\ Len(mol_buffer) >= 3
    /\ mol_buffer[1].rank = Len(mol_buffer)
    /\ last.op = "score_mol" /\ ~last.raised

\* C3: wherever mol_buffer is read in iteration order (log_intermediate without
\* arguments, save_result) the scores read are in non-increasing order.
C3_SortedOnRead ==
    /\ (last.op = "log_intermediate" /\ ~last.given) => IsSortedDesc(last.scores)
    /\ results_yaml.written => IsSortedDesc(ScoresOf(results_yaml.data))

\* C4, as stated: mol_buffer never holds more than 10000 (MaxOracle) entries.
C4_BufferBounded == Len(mol_buffer) <= MaxOracle

\* C4, amended: mol_buffer holds one entry per distinct key scored and is not
\* bounded by any budget; what is bounded is the aggregation of log_result:
\* the level of budget n holds min(n, len(mol_buffer)) entries, at most 10000.
C4_OnlyAggregationBounded ==
    /\ Len(mol_buffer) = Cardinality(Keys(mol_buffer))
    /\ last.op = "log_result" =>
          \A l \in DOMAIN log_num_oracles :
              /\ Len(last.results_all_level[l]) = Min(log_num_oracles[l], last.n)
              /\ Len(last.results_all_level[l]) <= MaxOracle

\* log_result ran on a buffer of more than MaxOracle entries.
C4_Witness == last.op = "log_result" /\ last.n > MaxOracle /\ Len(mol_buffer) > MaxOracle

\* C5: a call of optimize on a DoG_Gen_Optimizer that has left _optimize has
\* called hillclimber.run_hillclimbing exactly once and has raised nothing.
C5_DelegatesSearch ==
    (model_name = "dog_gen" /\ entry = "production"
        /\ pc \in {"log_result", "save_result", "reset", "finish", "optimize_returned", "crashed"})
    => (hc_calls = 1 /\ error # "AttributeError")

\* C6: in log_result the entries of the level of budget n are exactly the
\* buffer entries of insertion rank <= min(n, 10000), in non-increasing score
\* order, and the Top-100 table is the first 100 entries of the last level,
\* numbered 1..100.
C6_LevelsByInsertionRank ==
    last.op = "log_result" =>
        /\ \A l \in DOMAIN log_num_oracles :
              LET level == last.results_all_level[l] IN
              /\ Range(level) = {e \in Range(mol_buffer) :
                                    e.rank <= Min(log_num_oracles[l], MaxOracle)}
              /\ Distinct(level)
              /\ IsSortedDesc(ScoresOf(level))
        /\ last.table # <<>> =>
              /\ Len(last.table) = TopN
              /\ \A i \in 1..TopN :
                    LET e == last.results_all_level[Len(log_num_oracles)][i] IN
                    last.table[i] = [Rank |-> i, Score |-> e.score,
                                     Oracle |-> e.rank, SMILES |-> e.smi]
              /\ IsSortedDesc([i \in 1..TopN |-> last.table[i].Score])

\* log_result built the table from a buffer whose best entry was inserted after
\* the cut-off, so that it is in no level and not in the table.
C6_Witness ==
    /\ last.op = "log_result" /\ last.table # <<>>
    /\ mol_buffer[1].rank > MaxOracle
    /\ mol_buffer[1].score > last.table[1].Score

\* C7: a call of score_mol that returns gives a list as long as mol_list whose
\* i-th element is the score mol_buffer holds for the i-th key after the call:
\* the cached score when the key was in the buffer before the call, and
\* otherwise the score the oracle returned for it.
C7_ReturnsStoredScores ==
    (last.op = "score_mol" /\ ~last.raised) =>
        /\ Len(last.score_list) = Len(last.mol_list)
        /\ \A i \in DOMAIN last.mol_list :
              /\ KeyOf(last.mol_list, i) \in Keys(mol_buffer)
              /\ last.score_list[i] = Get(mol_buffer, KeyOf(last.mol_list, i)).score
              /\ KeyOf(last.mol_list, i) \in Keys(last.before) =>
                     last.score_list[i] = Get(last.before, KeyOf(last.mol_list, i)).score
              /\ [smi |-> KeyOf(last.mol_list, i), score |-> last.score_list[i]]
                     \in Range(oracle_log)

\* A call returned for a batch of a cached key, whose cached score is not what
\* the oracle would return now, and a new key.
C7_Witness ==
    /\ last.op = "score_mol" /\ ~last.raised
    /\ Len(last.mol_list) = 2
    /\ KeyOf(last.mol_list, 1) \in Keys(last.before)
    /\ last.score_list[1] # LowScore
    /\ Get(last.before, KeyOf(last.mol_list, 1)).rank # last.score_list[1]
    /\ KeyOf(last.mol_list, 2) \notin Keys(last.before)

\* C8: optimize runs _optimize, log_result, save_result, the reset and
\* run.finish in this order; the results file written holds every entry scored
\* in the run, in non-increasing score order, and mol_buffer is empty when
\* optimize returns.
C8_ExportBeforeReset ==
    /\ pc = "reset" =>
          /\ results_yaml.written /\ results_yaml.seed = seed
          /\ Pairs(results_yaml.data) = Range(oracle_log)
          /\ Len(results_yaml.data) = Len(oracle_log)
          /\ IsSortedDesc(ScoresOf(results_yaml.data))
    /\ pc = "optimize_returned" =>
          /\ steps = OptimizeOrder
          /\ mol_buffer = <<>>
          /\ ~run_active
          /\ results_yaml.written /\ results_yaml.seed = seed
          /\ Len(results_yaml.data) >= TopN
          /\ IsSortedDesc(ScoresOf(results_yaml.data))

\* optimize returned after writing a file of more than MaxOracle entries whose
\* first entry was not the first one scored.
C8_Witness ==
    /\ pc = "optimize_returned"
    /\ Len(results_yaml.data) > MaxOracle
    /\ results_yaml.data[1].rank # 1

\* C9: every run (every call of optimize by production, every trial of
\* hparam_tune) starts with an empty mol_buffer.
C9_RunsStartEmpty == pc \in {"optimize", "_func"} => mol_buffer = <<>>

\* C10: with fewer than 100 (TopN) entries log_result raises IndexError and
\* optimize ends without results file, reset or run.finish; with 100 or more
\* entries log_result completes.
C10_LogResultNeedsTopN ==
    last.op = "log_result" =>
        IF last.n < TopN
        THEN /\ error = "IndexError" /\ pc = "crashed"
             /\ ~results_yaml.written
             /\ Len(mol_buffer) = last.n
             /\ run_active
             /\ steps = <<"_optimize">>
        ELSE error = "none" /\ pc = "save_result"

====
